---- MODULE Spec2Model ----
(***************************************************************************)
(* A model of server.js (debAIt): the three agent adapters (callClaude,    *)
(* callCodex, callGemini), their output parsers, extractTokens, and the    *)
(* POST /new, POST /ask and POST /discuss handlers over the sessions map.  *)
(*                                                                         *)
(* JavaScript values are tagged records; a string is a sequence of         *)
(* characters, where a character is a whitespace character, a letter of    *)
(* plain text, a continuation token issued by an agent, or (in a captured  *)
(* stdout) the text of one complete JSON document.                         *)
(***************************************************************************)
EXTENDS Integers, Sequences, FiniteSets, TLC

\* ------------------------------------------------------------------ bounds
MaxTok == 2      \* continuation tokens each agent kind can issue
MaxChunks == 2   \* "data" events (chunks of stdout) of one process
MaxSlots == 2    \* requests in flight at once
MaxCalls == 3    \* requests received in one behaviour
MaxConvs == 2    \* conversations created in one behaviour
MaxClock == 2    \* values Date.now() runs through
MaxHist == 3     \* entries of a discussion transcript
MaxParts == 2    \* entries of a participant list
MaxLines == 3    \* lines of a codex stdout parsed on its own
MaxLog == 4      \* lines passed to log() in one behaviour

Providers == {"claude", "codex", "gemini"}

\* ------------------------------------------------------------- JS values
Undef == [t |-> "undef"]
Null == [t |-> "null"]
Num(n) == [t |-> "num", v |-> n]
Str(s) == [t |-> "str", v |-> s]
Obj(f) == [t |-> "obj", f |-> f]
Arr == [t |-> "arr"]
NoFields == [x \in {} |-> Undef]

\* characters
Ws(c) == [k |-> "ws", c |-> c]
Tx(c) == [k |-> "tx", c |-> c]
Js(v) == [k |-> "js", v |-> v]
Tok(by, n) == [k |-> "tok", by |-> by, n |-> n]
SP == Ws(" ")
NL == Ws("\n")

Lit(c) == Str(<<Tx(c)>>)
EmptyStr == Str(<< >>)
\* the session id the agent process of kind `by` prints
SessionTok(by, n) == Str(<<Tok(by, n)>>)

IsNullish(v) == v.t \in {"undef", "null"}
\* v[k] for a v that is not null or undefined
Get(v, k) == IF v.t = "obj" /\ k \in DOMAIN v.f THEN v.f[k] ELSE Undef
Truthy(v) ==
  CASE v.t = "undef" -> FALSE
    [] v.t = "null" -> FALSE
    [] v.t = "num" -> v.v # 0
    [] v.t = "str" -> v.v # << >>
    [] OTHER -> TRUE
\* a || b
Or(a, b) == IF Truthy(a) THEN a ELSE b
\* a + b on numbers
Add(a, b) == Num(a.v + b.v)
\* (v || "").slice(0, n) throws when v is truthy and has no slice method
SliceThrows(v) == Truthy(v) /\ v.t \notin {"str", "arr"}

\* --------------------------------------------------------------- strings
RECURSIVE TrimStart(_)
TrimStart(s) ==
  IF s # << >> /\ Head(s).k = "ws" THEN TrimStart(Tail(s)) ELSE s

RECURSIVE TrimEnd(_)
TrimEnd(s) ==
  IF s # << >> /\ s[Len(s)].k = "ws" THEN TrimEnd(SubSeq(s, 1, Len(s) - 1)) ELSE s

\* String.prototype.trim
Trim(s) == TrimEnd(TrimStart(s))

\* JSON.parse: the text, surrounding whitespace apart, is one JSON document
JSONParses(s) == Len(Trim(s)) = 1 /\ Trim(s)[1].k = "js"
JSONParse(s) == Trim(s)[1].v

\* s.split("\n") : the last line being built is `cur`
RECURSIVE SplitNL(_, _)
SplitNL(s, cur) ==
  IF s = << >> THEN <<cur>>
  ELSE IF Head(s) = NL THEN <<cur>> \o SplitNL(Tail(s), << >>)
  ELSE SplitNL(Tail(s), Append(cur, Head(s)))

\* lines.filter(Boolean)
FilterNonEmpty(ls) == SelectSeq(ls, LAMBDA l : l # << >>)

\* ------------------------------------------------------- parseCodexJSONL
CodexInit == [sessionId |-> Null, result |-> EmptyStr, tokenUsage |-> Null, aborted |-> FALSE]

\* if (event.type === "thread.started" && event.thread_id) sessionId = event.thread_id
CodexThread(acc, event) ==
  IF Get(event, "type") = Lit("thread.started") /\ Truthy(Get(event, "thread_id"))
  THEN [acc EXCEPT !.sessionId = Get(event, "thread_id")]
  ELSE acc

\* a variant in which the first agent message is kept
CodexMessageFirstWins(acc, event) ==
  IF /\ Get(event, "type") = Lit("item.completed")
     /\ Truthy(Get(event, "item"))
     /\ Get(Get(event, "item"), "type") = Lit("agent_message")
     /\ acc.result = EmptyStr
  THEN [acc EXCEPT !.result = Or(Get(Get(event, "item"), "text"), EmptyStr)]
  ELSE acc

\* if (event.type === "item.completed" && event.item && event.item.type ===
\*     "agent_message") result = event.item.text || ""
CodexMessage(acc, event) ==
  IF /\ Get(event, "type") = Lit("item.completed")
     /\ Truthy(Get(event, "item"))
     /\ Get(Get(event, "item"), "type") = Lit("agent_message")
  THEN [acc EXCEPT !.result = Or(Get(Get(event, "item"), "text"), EmptyStr)]
  ELSE acc

\* if (event.type === "turn.completed" && event.usage) tokenUsage = event.usage
CodexUsage(acc, event) ==
  IF Get(event, "type") = Lit("turn.completed") /\ Truthy(Get(event, "usage"))
  THEN [acc EXCEPT !.tokenUsage = Get(event, "usage")]
  ELSE acc

\* if (event.type === "turn.aborted") aborted = true
CodexAborted(acc, event) ==
  IF Get(event, "type") = Lit("turn.aborted") THEN [acc EXCEPT !.aborted = TRUE] ELSE acc

\* the body of the loop: a line that is not JSON, or whose event is null (reading
\* event.type throws), is skipped by the catch
CodexLine(acc, line) ==
  IF ~JSONParses(line) THEN acc
  ELSE IF IsNullish(JSONParse(line)) THEN acc
  ELSE CodexAborted(CodexUsage(CodexMessage(CodexThread(acc, JSONParse(line)),
                                            JSONParse(line)),
                               JSONParse(line)),
                    JSONParse(line))

RECURSIVE CodexFold(_, _)
CodexFold(acc, lines) ==
  IF lines = << >> THEN acc ELSE CodexFold(CodexLine(acc, Head(lines)), Tail(lines))

CodexLines(stdout) == FilterNonEmpty(SplitNL(Trim(stdout), << >>))

parseCodexJSONL(stdout) == CodexFold(CodexInit, CodexLines(stdout))

\* --------------------------------------------------------- extractTokens
ZeroTokens == [input |-> Num(0), output |-> Num(0)]

CodexTokens(tu) ==
  [input |-> Or(Get(tu, "input_tokens"), Or(Get(tu, "total_input_tokens"), Num(0))),
   output |-> Or(Get(tu, "output_tokens"), Or(Get(tu, "total_output_tokens"), Num(0)))]

GeminiTokens(tu) ==
  [input |-> Or(Get(tu, "input"), Num(0)), output |-> Or(Get(tu, "output"), Num(0))]

\* a variant that reads output_tokens without the "|| 0" default
ClaudeTokensNoDefault(u) ==
  [input |-> Add(Add(Or(Get(u, "input_tokens"), Num(0)),
                     Or(Get(u, "cache_read_input_tokens"), Num(0))),
                 Or(Get(u, "cache_creation_input_tokens"), Num(0))),
   output |-> Get(u, "output_tokens")]

ClaudeTokens(u) ==
  [input |-> Add(Add(Or(Get(u, "input_tokens"), Num(0)),
                     Or(Get(u, "cache_read_input_tokens"), Num(0))),
                 Or(Get(u, "cache_creation_input_tokens"), Num(0))),
   output |-> Or(Get(u, "output_tokens"), Num(0))]

\* reading result.token_usage throws when result is null or undefined
extractTokensThrows(result, provider) == IsNullish(result)

extractTokens(result, provider) ==
  IF provider = "codex" /\ Truthy(Get(result, "token_usage"))
    THEN CodexTokens(Get(result, "token_usage"))
  ELSE IF provider = "gemini" /\ Truthy(Get(result, "token_usage"))
    THEN GeminiTokens(Get(result, "token_usage"))
  ELSE IF provider = "claude" /\ Truthy(Get(result, "usage"))
    THEN ClaudeTokens(Get(result, "usage"))
  ELSE ZeroTokens

\* ------------------------------------------------- adapters: on "close"
Resolve(v) == [s |-> "resolve", v |-> v]
Reject(e) == [s |-> "reject", e |-> e]

\* resolve({ result: stdout.trim() })
RawResult(stdout) == Obj([result |-> Str(Trim(stdout))])

\* a variant that tests "if (code)": a null code (killed by a signal) passes
ExitFailsIfTruthy(code) == Truthy(code)

\* if (code !== 0) return reject(...)
ExitFails(code) == code # Num(0)

\* callClaude: the try block throws when stdout is not JSON, when the document
\* is null (parsed.result) or when (parsed.result || "").slice is no function
ClaudeTryThrows(stdout) ==
  \/ ~JSONParses(stdout)
  \/ IsNullish(JSONParse(stdout))
  \/ SliceThrows(Get(JSONParse(stdout), "result"))

ClaudeOnClose(code, stdout) ==
  IF ExitFails(code) THEN Reject("exit")
  ELSE IF ClaudeTryThrows(stdout) THEN Resolve(RawResult(stdout))
  ELSE Resolve(JSONParse(stdout))

\* callGemini: the per-model entries of parsed.stats.models (Object.values)
GeminiModels(parsed) ==
  IF Truthy(Get(parsed, "stats")) /\ Truthy(Get(Get(parsed, "stats"), "models"))
  THEN Get(Get(parsed, "stats"), "models")
  ELSE Obj(NoFields)

GeminiModelNames(parsed) ==
  IF GeminiModels(parsed).t = "obj" THEN DOMAIN GeminiModels(parsed).f ELSE {}

\* tokenInput += modelData.tokens.input || 0, for the models named
RECURSIVE GeminiInput(_, _)
GeminiInput(models, names) ==
  IF names = {} THEN Num(0)
  ELSE LET n == CHOOSE x \in names : TRUE
           tokens == Get(models.f[n], "tokens")
       IN Add(GeminiInput(models, names \ {n}),
              IF Truthy(tokens) THEN Or(Get(tokens, "input"), Num(0)) ELSE Num(0))

\* tokenOutput += modelData.tokens.candidates || modelData.tokens.output || 0
RECURSIVE GeminiOutput(_, _)
GeminiOutput(models, names) ==
  IF names = {} THEN Num(0)
  ELSE LET n == CHOOSE x \in names : TRUE
           tokens == Get(models.f[n], "tokens")
       IN Add(GeminiOutput(models, names \ {n}),
              IF Truthy(tokens)
              THEN Or(Get(tokens, "candidates"), Or(Get(tokens, "output"), Num(0)))
              ELSE Num(0))

\* the try block throws when stdout is not JSON, when the document is null,
\* when a model entry is null (modelData.tokens) or when the slice throws
GeminiTryThrows(stdout) ==
  \/ ~JSONParses(stdout)
  \/ IsNullish(JSONParse(stdout))
  \/ \E n \in GeminiModelNames(JSONParse(stdout)) :
       IsNullish(GeminiModels(JSONParse(stdout)).f[n])
  \/ SliceThrows(Get(JSONParse(stdout), "response"))

GeminiResponse(parsed) ==
  Obj([result |-> Get(parsed, "response"),
       session_id |-> Get(parsed, "session_id"),
       token_usage |->
         Obj([input |-> GeminiInput(GeminiModels(parsed), GeminiModelNames(parsed)),
              output |-> GeminiOutput(GeminiModels(parsed), GeminiModelNames(parsed))])])

GeminiOnClose(code, stdout) ==
  IF ExitFails(code) THEN Reject("exit")
  ELSE IF GeminiTryThrows(stdout) THEN Resolve(RawResult(stdout))
  ELSE Resolve(GeminiResponse(JSONParse(stdout)))

\* callCodex: parseCodexJSONL never throws; only the slice of the log line can
CodexTryThrows(stdout) == SliceThrows(parseCodexJSONL(stdout).result)

CodexResponse(parsed) ==
  Obj([result |-> parsed.result,
       session_id |-> parsed.sessionId,
       token_usage |-> parsed.tokenUsage])

CodexOnClose(code, stdout) ==
  IF ExitFails(code) THEN Reject("exit")
  ELSE IF CodexTryThrows(stdout) THEN Resolve(RawResult(stdout))
  ELSE Resolve(CodexResponse(parseCodexJSONL(stdout)))

OnClose(provider, code, stdout) ==
  CASE provider = "codex" -> CodexOnClose(code, stdout)
    [] provider = "gemini" -> GeminiOnClose(code, stdout)
    [] OTHER -> ClaudeOnClose(code, stdout)

\* --------------------------------------------- adapters: one invocation
\* The promise, the 120 s timer and the child process of one call of
\* callClaude / callGemini / callCodex.  `sessionId` is options.sessionId,
\* `resume` whether the arguments carry it (if (options.sessionId) ...).
NoOutcome == [s |-> "none"]
NoInv == [provider |-> "none"]

Spawn(provider, sessionId, ok) ==
  [provider |-> provider,
   sessionId |-> sessionId,
   resume |-> Truthy(sessionId),
   timer |-> "armed",
   proc |-> IF ok THEN "running" ELSE "failed",
   killed |-> FALSE,
   errored |-> FALSE,
   promise |-> "pending",
   out |-> NoOutcome]

\* resolve(...) / reject(...): only the first call settles the promise
Settle(inv, outcome) ==
  IF inv.promise = "pending"
  THEN [inv EXCEPT !.promise = IF outcome.s = "resolve" THEN "resolved" ELSE "rejected",
                   !.out = outcome]
  ELSE inv

\* clearTimeout(timer)
ClearTimer(inv) == [inv EXCEPT !.timer = IF @ = "armed" THEN "cleared" ELSE @]

\* a variant of the callback that kills and forgets to reject
OnTimerKillOnly(inv) == [inv EXCEPT !.timer = "fired", !.killed = TRUE]

\* the setTimeout callback: proc.kill("SIGKILL"); reject(new Error("... timed out"))
OnTimer(inv) ==
  Settle([inv EXCEPT !.timer = "fired", !.killed = TRUE], Reject("timeout"))

\* proc.on("close", code => ...)
OnCloseEvent(inv, code, stdout) ==
  Settle([ClearTimer(inv) EXCEPT !.proc = "closed"], OnClose(inv.provider, code, stdout))

\* proc.on("error", err => ...)
OnError(inv) ==
  Settle([ClearTimer(inv) EXCEPT !.errored = TRUE], Reject("spawn"))

\* A spawn that fails (ENOENT, EACCES, ...) emits "error" on the next tick and
\* then "close"; a process that runs emits "close" when it has exited.
TimerCanFire(inv) == inv.provider # "none" /\ inv.timer = "armed" /\ inv.proc = "running"
CanClose(inv) ==
  inv.provider # "none" /\ (inv.proc = "running" \/ (inv.proc = "failed" /\ inv.errored))
CanError(inv) == inv.provider # "none" /\ inv.proc = "failed" /\ ~inv.errored

\* the exit codes a close event can carry: 0, non-zero, null (ended by a signal);
\* a process that could not be spawned closes with the negative errno
ExitCodes(inv) == IF inv.proc = "failed" THEN {Num(-2)} ELSE {Num(0), Num(1), Null}

\* ------------------------------------------------- what the agents print
ClaudeUsage ==
  {Obj([input_tokens |-> Num(1), cache_read_input_tokens |-> Num(1),
        cache_creation_input_tokens |-> Num(1), output_tokens |-> Num(2)]),
   Obj([input_tokens |-> Num(1)]),
   Obj(NoFields)}

ClaudeDoc(n, u) ==
  Obj([result |-> Lit("A"), session_id |-> SessionTok("claude", n), usage |-> u,
       duration_ms |-> Num(5)])

ClaudeDocs ==
  {ClaudeDoc(n, CHOOSE u \in ClaudeUsage : Get(u, "output_tokens") = Num(2)) : n \in 1..MaxTok}
  \cup {ClaudeDoc(1, u) : u \in ClaudeUsage}
  \cup {Obj([result |-> Lit("A")]),
        Obj([result |-> EmptyStr, session_id |-> EmptyStr]),
        Obj([session_id |-> SessionTok("claude", 1)]),
        Obj(NoFields),
        Obj([result |-> Num(5)]),
        Obj([result |-> Arr]),
        Obj([result |-> Null, usage |-> Null]),
        Null, Num(7), Lit("s")}

GeminiTokenDocs ==
  {Obj([input |-> Num(1), candidates |-> Num(2)]),
   Obj([input |-> Num(1), output |-> Num(1)]),
   Obj(NoFields)}

GeminiStats ==
  {Obj([models |-> Obj([m1 |-> Obj([tokens |-> a]), m2 |-> Obj([tokens |-> b])])])
     : a, b \in GeminiTokenDocs}
  \cup {Obj([models |-> Obj([m1 |-> Obj(NoFields)])]),
        Obj([models |-> Obj([m1 |-> Null])]),
        Obj([models |-> Obj(NoFields)]),
        Obj(NoFields)}

GeminiDoc(n, st) ==
  Obj([response |-> Lit("A"), session_id |-> SessionTok("gemini", n), stats |-> st])

GeminiDocs ==
  {GeminiDoc(n, Obj(NoFields)) : n \in 1..MaxTok}
  \cup {GeminiDoc(1, st) : st \in GeminiStats}
  \cup {Obj([response |-> Lit("A")]),
        Obj([session_id |-> SessionTok("gemini", 1)]),
        Obj(NoFields),
        Obj([response |-> Num(5)]),
        Obj([response |-> Null, stats |-> Null]),
        Null, Num(7)}

CodexUsageDocs ==
  {Obj([input_tokens |-> Num(1), output_tokens |-> Num(2)]),
   Obj([total_input_tokens |-> Num(3), total_output_tokens |-> Num(4)]),
   Obj(NoFields)}

CodexThreadStarted(n) ==
  Obj([type |-> Lit("thread.started"), thread_id |-> SessionTok("codex", n)])

CodexAgentMessage(x) ==
  Obj([type |-> Lit("item.completed"),
       item |-> Obj([type |-> Lit("agent_message"), text |-> x])])

CodexTurnCompleted(u) == Obj([type |-> Lit("turn.completed"), usage |-> u])

CodexEvents ==
  {CodexThreadStarted(n) : n \in 1..MaxTok}
  \cup {CodexAgentMessage(Lit(x)) : x \in {"A", "B"}}
  \cup {CodexTurnCompleted(u) : u \in CodexUsageDocs}
  \cup {Obj([type |-> Lit("thread.started")]),
        Obj([type |-> Lit("item.completed"),
             item |-> Obj([type |-> Lit("reasoning"), text |-> Lit("R")])]),
        Obj([type |-> Lit("item.completed"), item |-> Obj([type |-> Lit("agent_message")])]),
        CodexAgentMessage(Num(5)),
        Obj([type |-> Lit("turn.completed")]),
        Obj([type |-> Lit("turn.aborted")]),
        Null}

\* the chunks a process of each kind writes to stdout
Chunks(provider) ==
  CASE provider = "codex" ->
         {<<Js(e), NL>> : e \in CodexEvents} \cup {<<Tx("x"), NL>>, <<NL>>, <<Tx("x")>>}
    [] provider = "gemini" ->
         {<<Js(d)>> : d \in GeminiDocs} \cup {<<NL>>, <<SP>>, <<Tx("x")>>}
    [] OTHER ->
         {<<Js(d)>> : d \in ClaudeDocs} \cup {<<NL>>, <<SP>>, <<Tx("x")>>}

\* ---------------------------------------------- formatDiscussionPrompt
\* const nameMap = { claude: "Claude", codex: "Codex", gemini: "Gemini" }
NameMapKeys == <<"claude", "codex", "gemini">>

NameMap(p) ==
  CASE p = "claude" -> "Claude"
    [] p = "codex" -> "Codex"
    [] p = "gemini" -> "Gemini"
    [] OTHER -> "undefined"

InNameMap(p) == \E i \in 1..Len(NameMapKeys) : NameMapKeys[i] = p

\* nameMap[p] || p
DisplayName(p) == IF InNameMap(p) THEN NameMap(p) ELSE p

\* an entry of history: msg.role, msg.provider ("absent": no such field), msg.content
Entry(role, provider, content) == [role |-> role, provider |-> provider, content |-> content]

\* participatingProviders.filter(p => p !== targetProvider).map(p => nameMap[p] || p)
RECURSIVE ListedOthers(_, _)
ListedOthers(parts, target) ==
  IF parts = << >> THEN << >>
  ELSE IF Head(parts) = target THEN ListedOthers(Tail(parts), target)
  ELSE <<DisplayName(Head(parts))>> \o ListedOthers(Tail(parts), target)

\* a variant that does not leave the target out
RECURSIVE SeenOthersAndTarget(_, _, _)
SeenOthersAndTarget(history, target, seen) ==
  IF history = << >> THEN seen
  ELSE LET msg == Head(history)
           adds == /\ msg.provider # "absent"
                   /\ InNameMap(msg.provider)
                   /\ \A i \in 1..Len(seen) : seen[i] # NameMap(msg.provider)
       IN SeenOthersAndTarget(Tail(history), target,
                              IF adds THEN Append(seen, NameMap(msg.provider)) ELSE seen)

\* seen.add(nameMap[msg.provider]) for the entries of another known provider;
\* a Set keeps the order of first insertion
RECURSIVE SeenOthers(_, _, _)
SeenOthers(history, target, seen) ==
  IF history = << >> THEN seen
  ELSE LET msg == Head(history)
           adds == /\ msg.provider # "absent"
                   /\ msg.provider # target
                   /\ InNameMap(msg.provider)
                   /\ \A i \in 1..Len(seen) : seen[i] # NameMap(msg.provider)
       IN SeenOthers(Tail(history), target,
                     IF adds THEN Append(seen, NameMap(msg.provider)) ELSE seen)

\* Object.entries(nameMap).filter(([k]) => k !== targetProvider).map(([, v]) => v)
AllOthers(target) == ListedOthers(NameMapKeys, target)

\* participatingProviders: not given, or an array
NoParts == [given |-> FALSE]
Parts(list) == [given |-> TRUE, list |-> list]

\* otherNames
OtherNames(history, target, parts) ==
  IF parts.given /\ Len(parts.list) > 0 THEN ListedOthers(parts.list, target)
  ELSE IF SeenOthers(history, target, << >>) # << >>
    THEN SeenOthers(history, target, << >>)
  ELSE AllOthers(target)

\* otherNames.join(" and "), as the pieces of the string
RECURSIVE Join(_, _)
Join(names, sep) ==
  IF names = << >> THEN << >>
  ELSE IF Len(names) = 1 THEN names
  ELSE <<Head(names), sep>> \o Join(Tail(names), sep)

\* a variant that renders an entry of an unknown provider under its raw name
RECURSIVE TranscriptKeepsUnknown(_)
TranscriptKeepsUnknown(history) ==
  IF history = << >> THEN << >>
  ELSE LET msg == Head(history)
       IN (IF msg.role = "user"
           THEN <<"[Human]: ", msg.content, "\n\n">>
           ELSE IF msg.provider # "absent"
             THEN <<"[", DisplayName(msg.provider), "]: ", msg.content, "\n\n">>
           ELSE << >>)
          \o TranscriptKeepsUnknown(Tail(history))

\* the lines the loop over history adds to transcript
RECURSIVE Transcript(_)
Transcript(history) ==
  IF history = << >> THEN << >>
  ELSE LET msg == Head(history)
       IN (IF msg.role = "user"
           THEN <<"[Human]: ", msg.content, "\n\n">>
           ELSE IF msg.provider # "absent" /\ InNameMap(msg.provider)
             THEN <<"[", NameMap(msg.provider), "]: ", msg.content, "\n\n">>
           ELSE << >>)
          \o Transcript(Tail(history))

\* the prompt, as the sequence of the pieces of text it is put together from
\* (the dash of the last sentence is written --)
formatDiscussionPrompt(history, target, parts) ==
  <<"You are ", DisplayName(target), " in a roundtable discussion with ">>
  \o Join(OtherNames(history, target, parts), " and ")
  \o <<" and a human moderator.\n\n", "Here is the full transcript so far:\n\n">>
  \o Transcript(history)
  \o <<"Now respond as ", DisplayName(target),
       ". Briefly summarize or quote the key points from ">>
  \o Join(OtherNames(history, target, parts), " and ")
  \o <<" that you are addressing, then give your response. ",
       "Engage directly with what each of the others said -- agree, disagree, or build on their points. Do not prefix your response with your name.">>

VARIABLES
  clock,     \* Date.now()
  heap,      \* the conversation objects ever created
  sessions,  \* the sessions map: conversation id -> object (0: no entry)
  req,       \* the requests in flight, each with its adapter invocation
  rx,        \* the request that arrived in the step just taken
  last,      \* the response sent in the step just taken
  saved,     \* what saveSessions wrote in the step just taken, and whether the write failed
  calls,     \* requests received so far
  ainv,      \* one adapter invocation on its own
  astdout,   \* its captured stdout
  adata,     \* its "data" events so far
  acode,     \* the exit code its close event carried
  atokens,   \* what its caller got from extractTokens
  fhistory,  \* formatDiscussionPrompt: history
  ftarget,   \* formatDiscussionPrompt: targetProvider
  fparts,    \* formatDiscussionPrompt: participatingProviders
  fout,      \* what formatDiscussionPrompt returned
  pstdout,   \* parseCodexJSONL: stdout
  pout,      \* what parseCodexJSONL returned
  logQueue,      \* the log lines not yet handed to appendFile
  isWritingLog,  \* a writeLogsToFile is between its splice and its finally
  appending,     \* the appendFile in progress: its lines and who awaits it
  logFile,       \* the lines in the log file
  appended,      \* the lines whose appendFile has completed
  logged,        \* lines passed to log() so far
  signalled,     \* lines passed to log() before the first SIGINT / SIGTERM
  exited         \* process.exit(0) was called

serverVars == <<clock, heap, sessions, req, rx, last, saved, calls>>
adapterVars == <<ainv, astdout, adata, acode, atokens>>
\* the inputs and outputs of the functions that are modelled on their own
formatVars == <<fhistory, ftarget, fparts, fout>>
parseVars == <<pstdout, pout>>
logVars == <<logQueue, isWritingLog, appending, logFile, appended, logged, signalled, exited>>
unitVars == <<formatVars, parseVars, logVars>>
vars == <<serverVars, adapterVars, unitVars>>

\* --------------------------------------- one adapter invocation, alone
NoTokens == [threw |-> FALSE, input |-> Undef, output |-> Undef]

\* const tokens = extractTokens(result, provider), as both handlers do once the
\* awaited invocation has resolved
TokensOf(inv) ==
  IF inv.promise # "resolved" THEN NoTokens
  ELSE IF extractTokensThrows(inv.out.v, inv.provider)
    THEN [threw |-> TRUE, input |-> Undef, output |-> Undef]
  ELSE [threw |-> FALSE,
        input |-> extractTokens(inv.out.v, inv.provider).input,
        output |-> extractTokens(inv.out.v, inv.provider).output]

\* ------------------------------------------------------ the server state
NoBody == [json |-> FALSE]

\* a request slot with no request in it; a request in flight keeps the locals
\* of its handler: provider, convId, conv (the object sessions.get returned)
IdleReq ==
  [pc |-> "idle", kind |-> "none", provider |-> "none", convId |-> 0, conv |-> 0,
   inv |-> NoInv]

\* no request arrived, no response was sent in this step
NoRx == [kind |-> "none"]
NoLast == [kind |-> "none"]

\* sessions.set(convId, { sessionId: null, turns: 0, created: ..., provider })
\* (created, a timestamp nothing reads back, is left out)
NewConversation(provider) == [sessionId |-> Null, turns |-> 0, provider |-> provider]

NoEntry == [turns |-> -1]

\* saveSessions was not called in this step
NoSave == [called |-> FALSE]

\* JSON.stringify of the sessions map, as saveSessions writes it
Snapshot(map, objs) ==
  [i \in DOMAIN map |-> IF map[i] = 0 THEN NoEntry ELSE objs[map[i]]]

AdapterIdle ==
  /\ ainv = NoInv /\ astdout = << >> /\ adata = 0 /\ acode = Undef /\ atokens = NoTokens

NoPrompt == << >>

FormatIdle ==
  /\ fhistory = << >> /\ ftarget = "none" /\ fparts = NoParts /\ fout = NoPrompt

NotParsed == [done |-> FALSE]
Parsed(p) == [done |-> TRUE, parsed |-> p]

ParseIdle == pstdout = << >> /\ pout = NotParsed

\* no appendFile is in progress
NoAppend == [by |-> "none"]
\* no signal was received
NoSignal == -1

LogIdle ==
  /\ logQueue = << >> /\ isWritingLog = FALSE /\ appending = NoAppend
  /\ logFile = << >> /\ appended = {} /\ logged = 0 /\ signalled = NoSignal
  /\ exited = FALSE

UnitIdle == FormatIdle /\ ParseIdle /\ LogIdle

ServerIdle ==
  /\ clock = 1
  /\ heap = << >>
  /\ sessions = [i \in 1..MaxClock |-> 0]
  /\ req = [r \in 1..MaxSlots |-> IdleReq]
  /\ rx = NoRx
  /\ last = NoLast
  /\ saved = NoSave
  /\ calls = 0

AInit ==
  /\ ServerIdle
  /\ UnitIdle
  /\ \E p \in Providers, ok \in BOOLEAN :
       \E sid \in {Null, SessionTok(p, 1)} : ainv = Spawn(p, sid, ok)
  /\ astdout = << >>
  /\ adata = 0
  /\ acode = Undef
  /\ atokens = NoTokens

\* proc.stdout.on("data", chunk => { stdout += chunk })
AData ==
  /\ ainv.proc = "running"
  /\ adata < MaxChunks
  /\ \E c \in Chunks(ainv.provider) : astdout' = astdout \o c
  /\ adata' = adata + 1
  /\ UNCHANGED <<ainv, acode, atokens, serverVars, unitVars>>

ATimer ==
  /\ TimerCanFire(ainv)
  /\ ainv' = OnTimer(ainv)
  /\ atokens' = TokensOf(ainv')
  /\ UNCHANGED <<astdout, adata, acode, serverVars, unitVars>>

AClose ==
  /\ CanClose(ainv)
  /\ \E code \in ExitCodes(ainv) :
       /\ ainv' = OnCloseEvent(ainv, code, astdout)
       /\ acode' = code
  /\ atokens' = TokensOf(ainv')
  /\ UNCHANGED <<astdout, adata, serverVars, unitVars>>

AError ==
  /\ CanError(ainv)
  /\ ainv' = OnError(ainv)
  /\ atokens' = TokensOf(ainv')
  /\ UNCHANGED <<astdout, adata, acode, serverVars, unitVars>>

ANext == AData \/ ATimer \/ AClose \/ AError

AdapterSpec == AInit /\ [][ANext]_vars

\* The event loop runs every timer that is due, and a spawn that failed emits
\* its "error" event on the next tick.
AdapterFairSpec == AdapterSpec /\ WF_vars(ATimer) /\ WF_vars(AError)

\* ------------------------------------------------------------ the server
\* what readBody yields: NoBody when the body is not JSON (readBody rejects)
NewBodies == {NoBody} \cup {[json |-> TRUE, provider |-> bp] : bp \in Providers}

\* prompt: "none" (absent or empty), "str", "num" (truthy, but no string)
AskBody(prompt, bp, cid) ==
  [json |-> TRUE, prompt |-> prompt, provider |-> bp, conversationId |-> cid]

AskBodies ==
  {NoBody, AskBody("none", "claude", 0), AskBody("str", "bogus", 0),
   AskBody("str", "absent", 0), AskBody("num", "claude", 0)}
  \cup {AskBody("str", bp, cid) : bp \in Providers, cid \in 0..MaxClock}

\* history: absent or no array, an array of entries, an array with a null entry
\* (formatDiscussionPrompt throws on msg.provider)
DiscussBody(h, bp) == [json |-> TRUE, history |-> h, provider |-> bp]

DiscussBodies ==
  {NoBody, DiscussBody("missing", "claude"), DiscussBody("null_entry", "claude"),
   DiscussBody("array", "absent")}
  \cup {DiscussBody("array", bp) : bp \in Providers}

\* what the processes print in the runs of the server: a full answer with a
\* session id, and text that is no structured output
ServerStdouts(provider) ==
  CASE provider = "codex" ->
         {<<Js(CodexThreadStarted(n)), NL, Js(CodexAgentMessage(Lit("A"))), NL>>
            : n \in 1..MaxTok}
         \cup {<<Tx("x"), NL>>}
    [] provider = "gemini" ->
         {<<Js(GeminiDoc(n, Obj(NoFields))), NL>> : n \in 1..MaxTok}
         \cup {<<Tx("x"), NL>>}
    [] OTHER ->
         {<<Js(ClaudeDoc(n, Obj([input_tokens |-> Num(1)]))), NL>> : n \in 1..MaxTok}
         \cup {<<Tx("x"), NL>>}

\* the body of a response: { error } or { result, conversationId, provider,
\* turn, tokens } (durationMs is left out)
Resp(status, error, result, convId, provider, turn, tokens) ==
  [status |-> status, error |-> error, result |-> result, conversationId |-> convId,
   provider |-> provider, turn |-> turn, tokens |-> tokens]

Failure(status, error) == Resp(status, error, Undef, 0, "none", 0, NoTokens)

\* requests are anonymous: a new one takes the first idle slot
CanStart(r) ==
  /\ calls < MaxCalls
  /\ req[r].pc = "idle"
  /\ \A q \in 1..(r - 1) : req[q].pc # "idle"

\* a variant that writes the conversations as they were before this step
SaveSessionsStale(map, objs) ==
  \E ok \in BOOLEAN :
    saved' = [called |-> TRUE,
              data |-> Snapshot(map, [c \in DOMAIN objs |->
                                        IF c \in DOMAIN heap THEN heap[c] ELSE objs[c]]),
              ok |-> ok]

\* saveSessions(): fs.writeFileSync of the whole map; the write may throw,
\* which is caught and logged
SaveSessions(map, objs) ==
  \E ok \in BOOLEAN : saved' = [called |-> TRUE, data |-> Snapshot(map, objs), ok |-> ok]

\* sendJSON(res, status, body)
SendJSON(kind, resp) == last' = [kind |-> kind, resp |-> resp]

\* readBody(req) of a request to /new, /ask, /discuss
ReadBody(kind, body) == rx' = [kind |-> kind, body |-> body]

\* the request awaits callClaude / callCodex / callGemini; present: the binary
\* is on the host, so that spawn succeeds
Await(r, kind, convId, conv, provider, sessionId, present) ==
  /\ req' = [req EXCEPT ![r] =
               [pc |-> "await", kind |-> kind, provider |-> provider,
                convId |-> convId, conv |-> conv,
                inv |-> Spawn(provider, sessionId, present)]]

\* what stays of a request once it is answered: its process, until it closes
AfterReply(inv1) ==
  IF inv1.proc = "closed" THEN IdleReq ELSE [IdleReq EXCEPT !.pc = "zombie", !.inv = inv1]

Tick ==
  /\ clock < MaxClock
  /\ clock' = clock + 1
  /\ rx' = NoRx
  /\ last' = NoLast
  /\ saved' = NoSave
  /\ UNCHANGED <<heap, sessions, req, calls, adapterVars, unitVars>>

\* POST /new
NewProvider(body) ==
  IF body.json /\ body.provider \in {"codex", "gemini"} THEN body.provider ELSE "claude"

PostNew(r) ==
  /\ CanStart(r)
  /\ Len(heap) < MaxConvs
  /\ \E body \in NewBodies :
       LET heap1 == Append(heap, NewConversation(NewProvider(body)))
           sessions1 == [sessions EXCEPT ![clock] = Len(heap1)]
       IN /\ ReadBody("new", body)
          /\ heap' = heap1
          /\ sessions' = sessions1
          /\ SaveSessions(sessions1, heap1)
          /\ SendJSON("new", Resp(200, "none", Undef, clock, NewProvider(body), 0,
                                  NoTokens))
  /\ calls' = calls + 1
  /\ UNCHANGED <<clock, req, adapterVars, unitVars>>

\* const provider = body.provider || "claude"
AskProvider(body) == IF body.provider = "absent" THEN "claude" ELSE body.provider

\* if (!convId || !sessions.has(convId))
AskCreates(body) == body.conversationId = 0 \/ sessions[body.conversationId] = 0

\* conv.turns > 0 && conv.provider && conv.provider !== provider
Mismatch(conv, provider) ==
  conv.turns > 0 /\ conv.provider # "none" /\ conv.provider # provider

\* a variant that also counts the turn, before the adapter is awaited
SetProviderAndCount(conv, provider) ==
  [conv EXCEPT !.provider = IF @ = "none" THEN provider ELSE @, !.turns = @ + 1]

\* if (!conv.provider) conv.provider = provider
SetProvider(conv, provider) ==
  [conv EXCEPT !.provider = IF @ = "none" THEN provider ELSE @]

\* the checks of POST /ask that come before the conversation is looked up;
\* present: what fs.existsSync says of the binary of the requested kind
AskRejection(body, present) ==
  IF ~body.json THEN Failure(500, "bad_json")
  ELSE IF body.prompt = "none" THEN Failure(400, "missing_prompt")
  ELSE IF AskProvider(body) \notin Providers THEN Failure(400, "invalid_provider")
  ELSE IF AskProvider(body) \in {"codex", "gemini"} /\ ~present
    THEN Failure(400, "unavailable")
  ELSE Failure(0, "none")

\* POST /ask, up to the await of the adapter call.  `present` is whether the
\* binary of the requested kind is on the host: fs.existsSync reads it for
\* codex and gemini, and spawn finds it out for claude, which is not checked
PostAsk(r) ==
  /\ CanStart(r)
  /\ \E body \in AskBodies, present \in BOOLEAN :
       /\ ReadBody("ask", body)
       /\ IF AskRejection(body, present).status # 0
          THEN /\ SendJSON("ask", AskRejection(body, present))
               /\ UNCHANGED <<heap, sessions, req>>
          ELSE LET provider == AskProvider(body)
                   convId == IF AskCreates(body) THEN clock ELSE body.conversationId
                   heap1 == IF AskCreates(body)
                            THEN Append(heap, NewConversation(provider))
                            ELSE heap
                   sessions1 == IF AskCreates(body)
                                THEN [sessions EXCEPT ![clock] = Len(heap1)]
                                ELSE sessions
                   c == sessions1[convId]
                   heap2 == [heap1 EXCEPT ![c] = SetProvider(@, provider)]
               IN /\ AskCreates(body) => Len(heap) < MaxConvs
                  /\ sessions' = sessions1
                  /\ IF Mismatch(heap1[c], provider)
                     THEN /\ heap' = heap1
                          /\ SendJSON("ask", Resp(400, "mismatch", Undef, 0,
                                                  heap1[c].provider, 0, NoTokens))
                          /\ UNCHANGED req
                     ELSE /\ heap' = heap2
                          /\ IF body.prompt = "num"
                             THEN /\ SendJSON("ask", Failure(500, "type_error"))
                                  /\ UNCHANGED req
                             ELSE /\ Await(r, "ask", convId, c, provider,
                                           heap1[c].sessionId, present)
                                  /\ last' = NoLast
  /\ calls' = calls + 1
  /\ saved' = NoSave
  /\ UNCHANGED <<clock, adapterVars, unitVars>>

\* the checks of POST /discuss; a null entry makes formatDiscussionPrompt
\* throw, which the handler catches
DiscussRejection(body, present) ==
  IF ~body.json THEN Failure(500, "bad_json")
  ELSE IF body.history = "missing" THEN Failure(400, "missing_history")
  ELSE IF body.provider \notin Providers THEN Failure(400, "invalid_provider")
  ELSE IF body.provider \in {"codex", "gemini"} /\ ~present
    THEN Failure(400, "unavailable")
  ELSE IF body.history = "null_entry" THEN Failure(500, "type_error")
  ELSE Failure(0, "none")

\* POST /discuss, up to the await of the adapter call: callX(prompt, {})
PostDiscuss(r) ==
  /\ CanStart(r)
  /\ \E body \in DiscussBodies, present \in BOOLEAN :
       /\ ReadBody("discuss", body)
       /\ IF DiscussRejection(body, present).status # 0
          THEN /\ SendJSON("discuss", DiscussRejection(body, present))
               /\ UNCHANGED req
          ELSE /\ Await(r, "discuss", 0, 0, body.provider, Undef, present)
               /\ last' = NoLast
  /\ calls' = calls + 1
  /\ saved' = NoSave
  /\ UNCHANGED <<clock, heap, sessions, adapterVars, unitVars>>

\* a variant that counts a turn only when the response carries a session id
RecordTurnIfToken(conv, result) ==
  IF Truthy(Get(result, "session_id"))
  THEN [conv EXCEPT !.sessionId = Get(result, "session_id"), !.turns = @ + 1]
  ELSE conv

\* a variant that stores result.session_id whatever it is
RecordTurnOverwrites(conv, result) ==
  [conv EXCEPT !.sessionId = Get(result, "session_id"), !.turns = @ + 1]

\* if (result.session_id) conv.sessionId = result.session_id; conv.turns++
RecordTurn(conv, result) ==
  [conv EXCEPT !.sessionId = IF Truthy(Get(result, "session_id"))
                             THEN Get(result, "session_id") ELSE @,
               !.turns = @ + 1]

\* POST /ask after the await: the update and the 200, or the catch and the 500
AskContinue(r, inv1) ==
  IF inv1.promise = "resolved"
  THEN LET c == req[r].conv
           heap1 == [heap EXCEPT ![c] = RecordTurn(@, inv1.out.v)]
       IN /\ heap' = heap1
          /\ SaveSessions(sessions, heap1)
          /\ SendJSON("ask", Resp(200, "none", Get(inv1.out.v, "result"), req[r].convId,
                                  req[r].provider, heap1[c].turns, TokensOf(inv1)))
  ELSE /\ SendJSON("ask", Failure(500, inv1.out.e))
       /\ saved' = NoSave
       /\ UNCHANGED heap

\* a variant that counts the discussion as a turn of every conversation
DiscussContinueCounts(r, inv1) ==
  /\ SendJSON("discuss",
              IF inv1.promise = "resolved"
              THEN Resp(200, "none", Get(inv1.out.v, "result"), 0, req[r].provider, 0,
                        TokensOf(inv1))
              ELSE Failure(500, inv1.out.e))
  /\ saved' = NoSave
  /\ heap' = [c \in DOMAIN heap |-> [heap[c] EXCEPT !.turns = @ + 1]]

\* POST /discuss after the await
DiscussContinue(r, inv1) ==
  /\ SendJSON("discuss",
              IF inv1.promise = "resolved"
              THEN Resp(200, "none", Get(inv1.out.v, "result"), 0, req[r].provider, 0,
                        TokensOf(inv1))
              ELSE Failure(500, inv1.out.e))
  /\ saved' = NoSave
  /\ UNCHANGED heap

\* a variant in which the handler continues on every event of an invocation
\* that is settled, also after its response was sent
EventResumesAgain(r, inv1) ==
  /\ IF inv1.promise # "pending"
     THEN /\ IF req[r].kind = "ask" THEN AskContinue(r, inv1) ELSE DiscussContinue(r, inv1)
          /\ req' = [req EXCEPT ![r] = AfterReply(inv1)]
     ELSE /\ req' = [req EXCEPT ![r] = [@ EXCEPT !.inv = inv1]]
          /\ last' = NoLast
          /\ saved' = NoSave
          /\ UNCHANGED heap
  /\ rx' = NoRx
  /\ UNCHANGED <<clock, sessions, calls, adapterVars, unitVars>>

\* an event of the adapter invocation of request r took it to inv1; if that
\* settled the awaited promise the handler continues in the same turn of the
\* event loop (a microtask), before any other request or event is taken
Event(r, inv1) ==
  /\ IF req[r].pc = "await" /\ inv1.promise # "pending"
     THEN /\ IF req[r].kind = "ask" THEN AskContinue(r, inv1) ELSE DiscussContinue(r, inv1)
          /\ req' = [req EXCEPT ![r] = AfterReply(inv1)]
     ELSE /\ req' = [req EXCEPT ![r] = IF req[r].pc = "zombie"
                                       THEN AfterReply(inv1)
                                       ELSE [@ EXCEPT !.inv = inv1]]
          /\ last' = NoLast
          /\ saved' = NoSave
          /\ UNCHANGED heap
  /\ rx' = NoRx
  /\ UNCHANGED <<clock, sessions, calls, adapterVars, unitVars>>

Timeout(r) ==
  /\ TimerCanFire(req[r].inv)
  /\ Event(r, OnTimer(req[r].inv))

Close(r) ==
  /\ CanClose(req[r].inv)
  /\ \E code \in ExitCodes(req[r].inv), stdout \in ServerStdouts(req[r].inv.provider) :
       Event(r, OnCloseEvent(req[r].inv, code, stdout))

SpawnError(r) ==
  /\ CanError(req[r].inv)
  /\ Event(r, OnError(req[r].inv))

Init == ServerIdle /\ AdapterIdle /\ UnitIdle

Next ==
  \/ Tick
  \/ \E r \in 1..MaxSlots : PostNew(r)
  \/ \E r \in 1..MaxSlots : PostAsk(r)
  \/ \E r \in 1..MaxSlots : PostDiscuss(r)
  \/ \E r \in 1..MaxSlots : Timeout(r)
  \/ \E r \in 1..MaxSlots : Close(r)
  \/ \E r \in 1..MaxSlots : SpawnError(r)

Spec == Init /\ [][Next]_vars

\* ------------------------------------- formatDiscussionPrompt, alone
\* the entries a caller may put in history: of the moderator (role "user"),
\* of an agent (provider), of an unknown provider, without provider, and
\* entries that carry the agent kind or "moderator" as their role
HistoryEntries ==
  {Entry("user", "absent", "X"), Entry("user", "claude", "Y"),
   Entry("assistant", "claude", "X"), Entry("assistant", "codex", "Y"),
   Entry("assistant", "gemini", "X"), Entry("assistant", "bogus", "X"),
   Entry("moderator", "absent", "X"), Entry("claude", "absent", "Y"),
   Entry("gemini", "absent", "X")}

Histories == UNION {[1..n -> HistoryEntries] : n \in 0..MaxHist}

\* participatingProviders: not given, or a list of agent kinds
Participants ==
  {NoParts} \cup {Parts(l) : l \in UNION {[1..n -> Providers] : n \in 0..MaxParts}}

FInit ==
  /\ ServerIdle
  /\ AdapterIdle
  /\ ParseIdle
  /\ LogIdle
  /\ fhistory \in Histories
  /\ ftarget \in Providers
  /\ fparts \in Participants
  /\ fout = NoPrompt

\* const prompt = formatDiscussionPrompt(body.history, provider, participants)
FFormat ==
  /\ fout = NoPrompt
  /\ fout' = formatDiscussionPrompt(fhistory, ftarget, fparts)
  /\ UNCHANGED <<fhistory, ftarget, fparts, serverVars, adapterVars, parseVars, logVars>>

FNext == FFormat

FormatSpec == FInit /\ [][FNext]_vars

\* ------------------------------------------------ parseCodexJSONL, alone
\* the lines a codex process may print: an event, another JSON value, text
\* that is not JSON, a blank line, an empty line
ParseLines ==
  {<<Js(e)>> : e \in CodexEvents \cup {Num(7)}} \cup {<<Tx("x")>>, <<SP>>, << >>}

\* lines.join("\n")
RECURSIVE JoinNL(_)
JoinNL(ls) ==
  IF ls = << >> THEN << >>
  ELSE IF Len(ls) = 1 THEN ls[1]
  ELSE ls[1] \o <<NL>> \o JoinNL(Tail(ls))

Stdouts == {JoinNL(ls) : ls \in UNION {[1..n -> ParseLines] : n \in 0..MaxLines}}

PInit ==
  /\ ServerIdle
  /\ AdapterIdle
  /\ FormatIdle
  /\ LogIdle
  /\ pstdout \in Stdouts
  /\ pout = NotParsed

\* const parsed = parseCodexJSONL(stdout)
PParse ==
  /\ pout = NotParsed
  /\ pout' = Parsed(parseCodexJSONL(pstdout))
  /\ UNCHANGED <<pstdout, serverVars, adapterVars, formatVars, logVars>>

PNext == PParse

ParseSpec == PInit /\ [][PNext]_vars

\* ------------------------------------- the log writer and the shutdown
\* the server.listen callback has logged "Server started" and set the interval
LInit ==
  /\ ServerIdle
  /\ AdapterIdle
  /\ FormatIdle
  /\ ParseIdle
  /\ logQueue = <<1>>
  /\ logged = 1
  /\ isWritingLog = FALSE
  /\ appending = NoAppend
  /\ logFile = << >>
  /\ appended = {}
  /\ signalled = NoSignal
  /\ exited = FALSE

\* log(level, msg, data): logQueue.push(line)
Log ==
  /\ ~exited
  /\ logged < MaxLog
  /\ logged' = logged + 1
  /\ logQueue' = Append(logQueue, logged + 1)
  /\ UNCHANGED <<isWritingLog, appending, logFile, appended, signalled, exited>>
  /\ UNCHANGED <<serverVars, adapterVars, formatVars, parseVars>>

\* if (logQueue.length === 0 || isWritingLog) return
WriteReturnsAtOnce == logQueue = << >> \/ isWritingLog

\* writeLogsToFile up to its await, called by `by`: the flag is set, the queue
\* is emptied and its lines are handed to appendFile
StartWrite(by) ==
  /\ isWritingLog' = TRUE
  /\ appending' = [by |-> by, lines |-> logQueue]
  /\ logQueue' = << >>

\* setInterval(writeLogsToFile, 5000) fires
IntervalFires ==
  /\ ~exited
  /\ ~WriteReturnsAtOnce
  /\ StartWrite("interval")
  /\ UNCHANGED <<logFile, appended, logged, signalled, exited>>
  /\ UNCHANGED <<serverVars, adapterVars, formatVars, parseVars>>

\* the appendFile in progress completes, or fails and the catch reports it;
\* finally clears the flag, and a signal handler that awaited this call goes
\* on to process.exit(0)
AppendSettles ==
  /\ ~exited
  /\ appending # NoAppend
  /\ \E ok \in BOOLEAN :
       logFile' = IF ok THEN logFile \o appending.lines ELSE logFile
  /\ appended' = appended \cup {appending.lines[i] : i \in 1..Len(appending.lines)}
  /\ isWritingLog' = FALSE
  /\ appending' = NoAppend
  /\ exited' = (appending.by = "signal")
  /\ UNCHANGED <<logQueue, logged, signalled>>
  /\ UNCHANGED <<serverVars, adapterVars, formatVars, parseVars>>

\* the SIGINT / SIGTERM handler: await writeLogsToFile(); process.exit(0).
\* When writeLogsToFile returns at once the await resumes in the same turn of
\* the event loop and the process exits
Signal ==
  /\ ~exited
  /\ signalled' = IF signalled = NoSignal THEN logged ELSE signalled
  /\ IF WriteReturnsAtOnce
     THEN /\ exited' = TRUE
          /\ UNCHANGED <<logQueue, isWritingLog, appending>>
     ELSE /\ StartWrite("signal")
          /\ UNCHANGED exited
  /\ UNCHANGED <<logFile, appended, logged>>
  /\ UNCHANGED <<serverVars, adapterVars, formatVars, parseVars>>

LNext ==
  \/ Log
  \/ IntervalFires
  \/ AppendSettles
  \/ Signal

LogSpec == LInit /\ [][LNext]_vars

\* --------------------------------------------------- claims on the server
\* the turns and sessionId stored under every conversation id
TurnsAndTokens ==
  [i \in DOMAIN sessions |->
     IF sessions[i] = 0 THEN NoEntry
     ELSE [turns |-> heap[sessions[i]].turns, sessionId |-> heap[sessions[i]].sessionId]]

\* this step takes in a POST /ask on an existing conversation and awaits its adapter
StartsAskOnExisting(r) ==
  /\ req[r].pc = "idle"
  /\ req'[r].pc = "await"
  /\ req'[r].kind = "ask"
  /\ rx'.body.conversationId # 0
  /\ sessions[rx'.body.conversationId] # 0

\* this step ends the POST /ask of slot r with the failure of its adapter invocation
FailsAsk(r) ==
  /\ req[r].pc = "await"
  /\ req[r].kind = "ask"
  /\ req'[r].pc # "await"
  /\ last'.resp.status # 200

\* C1: a POST /ask on an existing conversation whose adapter invocation fails
\* (timeout, non-zero exit, spawn error) changes no conversation's turns or
\* sessionId: neither the step that takes the request in nor the step that
\* ends it with the failure does, the answer is the 500 of that failure, and
\* nothing is saved.
C1_FailedAskKeepsSession ==
  [][\A r \in 1..MaxSlots :
       /\ StartsAskOnExisting(r) => TurnsAndTokens' = TurnsAndTokens
       /\ FailsAsk(r) =>
            /\ TurnsAndTokens' = TurnsAndTokens
            /\ heap' = heap
            /\ saved' = NoSave
            /\ last'.resp.status = 500
            /\ last'.resp.error \in {"timeout", "exit", "spawn"}]_vars

\* the second request was a POST /ask on the one conversation there is, which
\* had a turn and a token, and its process exited with a non-zero code
C1_Witness ==
  /\ calls = 2
  /\ Len(heap) = 1
  /\ heap[1].turns = 1
  /\ heap[1].sessionId = SessionTok("codex", 1)
  /\ last.kind = "ask"
  /\ last.resp.status = 500
  /\ last.resp.error = "exit"

\* C2: the sessionId POST /ask passes to an adapter is null or a session id
\* that an adapter of the same agent kind returned.
C2_TokenStaysWithItsKind ==
  \A r \in 1..MaxSlots :
    (req[r].pc = "await" /\ req[r].kind = "ask") =>
      \/ req[r].inv.sessionId = Null
      \/ \A i \in 1..Len(req[r].inv.sessionId.v) :
           req[r].inv.sessionId.v[i].by = req[r].inv.provider

\* C3: once a conversation id has a provider stored, no step changes the
\* provider stored under that id.
C3_ProviderNeverChanges ==
  [][\A id \in DOMAIN sessions :
       (sessions[id] # 0 /\ heap[sessions[id]].provider # "none") =>
         /\ sessions'[id] # 0
         /\ heap'[sessions'[id]].provider = heap[sessions[id]].provider]_vars

\* the agent kind under which the conversation's recorded turn ran: the kind
\* whose adapter returned the stored token
TurnKinds(conv) ==
  IF conv.turns > 0 /\ conv.sessionId # Null
  THEN {conv.sessionId.v[i].by : i \in 1..Len(conv.sessionId.v)}
  ELSE {}

\* this step takes in a well-formed POST /ask for a kind whose binary is on the
\* host, on a conversation with a recorded turn under another kind
AsksOtherKind ==
  /\ rx'.kind = "ask"
  /\ rx'.body.json
  /\ rx'.body.prompt = "str"
  /\ AskProvider(rx'.body) \in Providers
  /\ rx'.body.conversationId # 0
  /\ sessions[rx'.body.conversationId] # 0
  /\ TurnKinds(heap[sessions[rx'.body.conversationId]]) \ {AskProvider(rx'.body)} # {}
  /\ last'.kind = "ask" => last'.resp.error # "unavailable"

\* C4: a POST /ask for kind B on a conversation with a recorded turn under
\* another kind A is rejected with the provider-mismatch error, spawns no
\* process and leaves the stored provider, turns and sessionId unchanged.
C4_MismatchRejected ==
  [][AsksOtherKind =>
       /\ last'.kind = "ask"
       /\ last'.resp.status = 400
       /\ last'.resp.error = "mismatch"
       /\ req' = req
       /\ heap' = heap
       /\ sessions' = sessions]_vars

\* the request that arrives in this step is one that has to be rejected: its
\* prompt or history is missing, its provider is no agent kind, or it asks for
\* another kind than the one its conversation is pinned to
MustReject ==
  /\ rx'.body.json
  /\ IF rx'.kind = "discuss"
     THEN rx'.body.history = "missing" \/ rx'.body.provider \notin Providers
     ELSE \/ rx'.body.prompt = "none"
          \/ AskProvider(rx'.body) \notin Providers
          \/ /\ rx'.body.conversationId # 0
             /\ sessions[rx'.body.conversationId] # 0
             /\ Mismatch(heap[sessions[rx'.body.conversationId]], AskProvider(rx'.body))

\* C5: a POST /ask or POST /discuss that is malformed, names an invalid
\* provider or mismatches its conversation's provider is answered with an
\* error in the step that takes it in, with no adapter called; and no adapter
\* of any kind is ever made to spawn a binary that is absent from the host.
C5_RejectedBeforeSpawn ==
  [][rx'.kind \in {"ask", "discuss"} =>
       /\ MustReject => (req' = req /\ last'.kind = rx'.kind /\ last'.resp.status = 400)
       /\ \A r \in 1..MaxSlots :
            (req[r].pc = "idle" /\ req'[r].pc = "await") =>
              req'[r].inv.proc # "failed"]_vars

\* this step ends the POST /ask of slot r with the 200
SucceedsAsk(r) ==
  /\ req[r].pc = "await"
  /\ req[r].kind = "ask"
  /\ req'[r].pc # "await"
  /\ last'.resp.status = 200

\* C11: every step changes the turns of each conversation by exactly the
\* number of POST /ask calls on it that the step ends with success, which is 1
\* for the step of a successful call and 0 for every step that takes a request
\* in, rejects it or ends it with a failure, whatever other calls are awaiting
\* on the same conversation; the 200 carries the new count, and a conversation
\* starts at 0.
C11_TurnsCountSuccesses ==
  [][/\ Len(heap') >= Len(heap)
     /\ \A c \in 1..Len(heap) :
          /\ heap'[c].turns =
               heap[c].turns
                 + Cardinality({r \in 1..MaxSlots : SucceedsAsk(r) /\ req[r].conv = c})
          /\ \A r \in 1..MaxSlots :
               (SucceedsAsk(r) /\ req[r].conv = c) => last'.resp.turn = heap[c].turns + 1
     /\ \A c \in (Len(heap) + 1)..Len(heap') : heap'[c].turns = 0]_vars

\* two calls on the one conversation have succeeded, the second without a
\* session id in its response
C11_Witness ==
  /\ Len(heap) = 1
  /\ heap[1].turns = 2
  /\ last.kind = "ask"
  /\ last.resp.status = 200
  /\ last.resp.turn = 2
  /\ last.resp.result = Lit("x")

\* this step takes in a POST /ask and awaits its adapter
StartsAsk(r) ==
  /\ req[r].pc = "idle"
  /\ req'[r].pc = "await"
  /\ req'[r].kind = "ask"

\* the session ids an agent of the kind prints
SessionToks(provider) == {SessionTok(provider, n) : n \in 1..MaxTok}

\* C12: a stored sessionId changes only in the step that ends a POST /ask on
\* its conversation with success, and then to the session id the agent
\* returned; a success whose response is the raw text of stdout, which carries
\* no session id, keeps the stored one; and the sessionId handed to the adapter
\* of a call is the one stored when the request is taken in.
C12_TokenReplacedOnlyByNewOne ==
  [][/\ \A c \in 1..Len(heap) :
          heap'[c].sessionId # heap[c].sessionId =>
            \E r \in 1..MaxSlots :
              /\ SucceedsAsk(r)
              /\ req[r].conv = c
              /\ last'.resp.result # Lit("x")
              /\ heap'[c].sessionId \in SessionToks(req[r].provider)
     /\ \A r \in 1..MaxSlots :
          StartsAsk(r) =>
            /\ req'[r].inv.sessionId = heap'[req'[r].conv].sessionId
            /\ req'[r].conv <= Len(heap) =>
                 req'[r].inv.sessionId = heap[req'[r].conv].sessionId]_vars

\* the second call on the conversation succeeded with raw text, and the token
\* the first call stored is still there
C12_Witness ==
  /\ Len(heap) = 1
  /\ heap[1].turns = 2
  /\ heap[1].sessionId = SessionTok("gemini", 2)
  /\ last.kind = "ask"
  /\ last.resp.status = 200
  /\ last.resp.turn = 2
  /\ last.resp.result = Lit("x")
  /\ \A r \in 1..MaxSlots : req[r].pc = "idle"

\* this step takes in a POST /discuss, or ends the one of slot r
DiscussStep ==
  \/ rx'.kind = "discuss"
  \/ \E r \in 1..MaxSlots :
       req[r].pc = "await" /\ req[r].kind = "discuss" /\ req'[r].pc # "await"

\* C13: no step of a POST /discuss (taking it in, rejecting it, ending it with
\* the 200 or the 500) changes the sessions map or any conversation in it or
\* saves it, and the adapter a discussion awaits was given no sessionId: it
\* does not resume.
C13_DiscussIsStateless ==
  [][/\ DiscussStep => (sessions' = sessions /\ heap' = heap /\ saved' = NoSave)
     /\ \A r \in 1..MaxSlots :
          (req'[r].pc = "await" /\ req'[r].kind = "discuss") =>
            (req'[r].inv.sessionId = Undef /\ ~req'[r].inv.resume)]_vars

\* a discussion has been answered by gemini with the 200 while a conversation
\* with a turn and a token is in the map
C13_Witness ==
  /\ last.kind = "discuss"
  /\ last.resp.status = 200
  /\ last.resp.provider = "gemini"
  /\ Len(heap) = 1
  /\ heap[1].turns = 1
  /\ heap[1].sessionId = SessionTok("gemini", 1)

\* C14: the step that ends a POST /ask with success hands saveSessions the
\* whole sessions map as it is after conv.turns and conv.sessionId were
\* updated; whether the write fails or not, the answer is the 200 with the
\* conversation's id, provider and new turn count, and the map and its
\* conversations are the updated ones.
C14_SuccessIsSaved ==
  [][\A r \in 1..MaxSlots :
       SucceedsAsk(r) =>
         /\ saved'.called
         /\ saved'.data = Snapshot(sessions', heap')
         /\ sessions' = sessions
         /\ heap'[req[r].conv].turns = heap[req[r].conv].turns + 1
         /\ last'.kind = "ask"
         /\ last'.resp.status = 200
         /\ last'.resp.error = "none"
         /\ last'.resp.conversationId = req[r].convId
         /\ last'.resp.provider = req[r].provider
         /\ last'.resp.turn = heap'[req[r].conv].turns]_vars

\* a call has succeeded, the map with its turn and token went to saveSessions,
\* and the write failed
C14_Witness ==
  /\ saved.called
  /\ ~saved.ok
  /\ saved.data = Snapshot(sessions, heap)
  /\ Len(heap) = 1
  /\ heap[1].turns = 1
  /\ heap[1].sessionId = SessionTok("claude", 1)
  /\ last.kind = "ask"
  /\ last.resp.status = 200
  /\ last.resp.turn = 1

\* the request that arrives in this step is a well-formed POST /ask, of the
\* kind its conversation has, for conversation id `id` that another POST /ask
\* is awaiting its adapter on
JoinsAsk(id) ==
  /\ rx'.kind = "ask"
  /\ rx'.body.json
  /\ rx'.body.prompt = "str"
  /\ rx'.body.conversationId = id
  /\ sessions[id] # 0
  /\ AskProvider(rx'.body) \in Providers
  /\ ~Mismatch(heap[sessions[id]], AskProvider(rx'.body))
  /\ \E q \in 1..MaxSlots :
       req[q].pc = "await" /\ req[q].kind = "ask" /\ req[q].convId = id

\* while the POST /ask of slot r awaited its adapter another POST /ask on its
\* conversation id succeeded and stored a session id: the one stored under the
\* id is no longer the one r's adapter was called with
OvertakenAsk(r) ==
  /\ req[r].pc = "await"
  /\ req[r].kind = "ask"
  /\ heap[sessions[req[r].convId]].sessionId # Null
  /\ heap[sessions[req[r].convId]].sessionId # req[r].inv.sessionId

\* C19: a POST /ask that arrives while another one on the same conversation id
\* is awaiting its adapter is not rejected for that (only a missing binary
\* stops it): its adapter is called with the sessionId stored at that moment,
\* nothing stored changes and the waiting call is left alone; and when a
\* POST /ask that was overtaken by another on its id succeeds with the full
\* answer of its agent, which carries a session id, the sessionId stored under
\* the id is the one this last call returned.
C19_LastWriterWins ==
  [][/\ \A id \in 1..MaxClock :
          JoinsAsk(id) =>
            \/ last'.kind = "ask" /\ last'.resp.error = "unavailable"
            \/ \E r \in 1..MaxSlots :
                 /\ StartsAsk(r)
                 /\ req'[r].convId = id
                 /\ req'[r].inv.sessionId = heap[sessions[id]].sessionId
                 /\ heap' = heap
                 /\ sessions' = sessions
                 /\ \A q \in 1..MaxSlots \ {r} : req'[q] = req[q]
     /\ \A r \in 1..MaxSlots :
          (OvertakenAsk(r) /\ SucceedsAsk(r) /\ last'.resp.result = Lit("A")) =>
            /\ heap'[req[r].conv].sessionId \in SessionToks(req[r].provider)
            /\ heap'[sessions'[req[r].convId]].sessionId = heap'[req[r].conv].sessionId]_vars

\* C21: a step that creates a conversation (POST /new, or a POST /ask with an
\* absent or unknown conversationId) stores it under an id that had no entry:
\* every entry of the sessions map before the step is the same object after it.
C21_CreationNeverOverwrites ==
  [][Len(heap') > Len(heap) =>
       /\ \A id \in DOMAIN sessions : sessions[id] # 0 => sessions'[id] = sessions[id]
       /\ \E id \in DOMAIN sessions : sessions[id] = 0 /\ sessions'[id] = Len(heap')]_vars

\* this step settles the invocation that the request of slot r awaits
SettlesNow(r) == req[r].pc = "await" /\ req'[r].pc # "await"

\* the invocation of slot r was settled and answered, and its process has not
\* closed yet
Answered(r) == req[r].pc = "zombie"

\* C22: the step that settles an awaited invocation sends the one response of
\* its request, with the outcome of the event that came first: the timeout
\* error and a SIGKILL when it was the timer, the spawn error and a cancelled
\* timer when it was the error event, the outcome of the close handler and no
\* timer left when it was the close event.  Every later event of that
\* invocation sends no response, saves nothing and leaves the conversations
\* and the settled outcome as they are; and once error or close was handled
\* the timer is cancelled and never fires or kills.
C22_SettlesOnceWithFirstOutcome ==
  [][\A r \in 1..MaxSlots :
       /\ SettlesNow(r) =>
            /\ last'.kind = req[r].kind
            /\ IF req'[r].pc = "idle"
               THEN last'.resp.error \notin {"timeout", "spawn"}
               ELSE /\ req'[r].pc = "zombie"
                    /\ req'[r].inv.proc # "closed"
                    /\ IF req'[r].inv.timer = "fired"
                       THEN /\ req[r].inv.timer = "armed"
                            /\ ~req'[r].inv.errored
                            /\ req'[r].inv.killed
                            /\ req'[r].inv.out = Reject("timeout")
                            /\ last'.resp = Failure(500, "timeout")
                       ELSE /\ req'[r].inv.errored
                            /\ req'[r].inv.timer = "cleared"
                            /\ ~req'[r].inv.killed
                            /\ req'[r].inv.out = Reject("spawn")
                            /\ last'.resp = Failure(500, "spawn")
       /\ (Answered(r) /\ req'[r] # req[r]) =>
            /\ last' = NoLast
            /\ saved' = NoSave
            /\ heap' = heap
            /\ sessions' = sessions
            /\ req'[r].pc = "zombie" =>
                 /\ req'[r].inv.promise = req[r].inv.promise
                 /\ req'[r].inv.out = req[r].inv.out
       /\ (req[r].inv.provider # "none" /\ req[r].inv.errored) =>
            /\ req[r].inv.timer = "cleared"
            /\ ~req[r].inv.killed
            /\ req'[r].pc = "zombie" =>
                 (req'[r].inv.timer = "cleared" /\ ~req'[r].inv.killed)]_vars

\* the timer fired on the second call of a conversation that holds the session
\* id of its first: the call was answered with the timeout error, its process
\* was killed and its close event is still to come
C22_Witness ==
  \E r \in 1..MaxSlots :
    /\ Answered(r)
    /\ req[r].inv.timer = "fired"
    /\ req[r].inv.killed
    /\ CanClose(req[r].inv)
    /\ req[r].inv.sessionId # Null
    /\ last = [kind |-> "ask", resp |-> Failure(500, "timeout")]
    /\ \E c \in 1..Len(heap) : heap[c].turns = 1 /\ heap[c].sessionId = req[r].inv.sessionId

\* ------------------------------------ claims on formatDiscussionPrompt
\* the names a prompt gives after "in a roundtable discussion with": the
\* pieces up to " and a human moderator", without the " and " between them
ModeratorAt(prompt) ==
  CHOOSE k \in 4..Len(prompt) : prompt[k] = " and a human moderator.\n\n"

NamedOthers(prompt) ==
  [j \in 1..((ModeratorAt(prompt) - 3) \div 2) |-> prompt[2 + 2 * j]]

\* C15: for every transcript, target kind and participant list (absent, empty
\* or a list of agent kinds) the prompt names at least one other participant.
C15_OthersNeverEmpty ==
  fout # NoPrompt => NamedOthers(fout) # << >>

\* no explicit participant list: none given, or an empty one
NoList(parts) == ~parts.given \/ parts.list = << >>

\* every entry is { role: "moderator" | agentKind, content }
RoleSchema(history) ==
  \A i \in 1..Len(history) :
    /\ history[i].role \in {"moderator"} \cup Providers
    /\ history[i].provider = "absent"

\* the agent kinds other than the target that appear as the role / as the
\* provider of an entry
KindsByRole(history, target) ==
  ({history[i].role : i \in 1..Len(history)} \cap Providers) \ {target}

KindsByProvider(history, target) ==
  ({history[i].provider : i \in 1..Len(history)} \cap Providers) \ {target}

\* the prompt names exactly the kinds of the set, each once, or every other
\* known kind when the set is empty
NamesExactly(prompt, kinds, target) ==
  /\ {NamedOthers(prompt)[j] : j \in 1..Len(NamedOthers(prompt))} =
       {NameMap(k) : k \in IF kinds # {} THEN kinds ELSE Providers \ {target}}
  /\ Len(NamedOthers(prompt)) =
       Cardinality(IF kinds # {} THEN kinds ELSE Providers \ {target})

TranscriptOf(prompt) ==
  LET a == CHOOSE k \in 1..Len(prompt) : prompt[k] = "Here is the full transcript so far:\n\n"
      b == CHOOSE k \in 1..Len(prompt) : prompt[k] = "Now respond as "
  IN SubSeq(prompt, a + 1, b - 1)

\* who an entry is by, going by its role alone / by its role and provider
\* fields: "Human", the display name of a known agent kind, or "omit"
ByRole(msg) ==
  IF msg.role = "moderator" THEN "Human"
  ELSE IF msg.role \in Providers THEN NameMap(msg.role)
  ELSE "omit"

ByFields(msg) ==
  IF msg.role = "user" THEN "Human"
  ELSE IF msg.provider \in Providers THEN NameMap(msg.provider)
  ELSE "omit"

\* the lines '[Human]: <content>' and '[<DisplayName>]: <content>', each
\* followed by a blank line, of the entries that are not labelled "omit"
RECURSIVE Lines(_, _)
Lines(history, labels) ==
  IF history = << >> THEN << >>
  ELSE (CASE Head(labels) = "omit" -> << >>
          [] Head(labels) = "Human" -> <<"[Human]: ", Head(history).content, "\n\n">>
          [] OTHER -> <<"[", Head(labels), "]: ", Head(history).content, "\n\n">>)
       \o Lines(Tail(history), Tail(labels))

ParsedEvents(stdout) ==
  LET ls == SelectSeq(CodexLines(stdout), JSONParses)
  IN [i \in 1..Len(ls) |-> JSONParse(ls[i])]

IsThreadStarted(e) == Get(e, "type") = Lit("thread.started") /\ Truthy(Get(e, "thread_id"))
IsAgentMessage(e) ==
  Get(e, "type") = Lit("item.completed") /\ Get(Get(e, "item"), "type") = Lit("agent_message")
IsTurnCompleted(e) == Get(e, "type") = Lit("turn.completed") /\ Truthy(Get(e, "usage"))
IsTurnAborted(e) == Get(e, "type") = Lit("turn.aborted")

\* the index of the last event of a kind, 0 if there is none
LastOf(evs, Is(_)) ==
  IF \E i \in 1..Len(evs) : Is(evs[i])
  THEN CHOOSE i \in 1..Len(evs) : Is(evs[i]) /\ \A j \in (i + 1)..Len(evs) : ~Is(evs[j])
  ELSE 0

\* C18: for every stdout, parseCodexJSONL returns, of the lines that are JSON
\* and in their order, the thread_id of the last thread.started event that
\* has one (null if none), the text of the last item.completed agent_message
\* event (the empty string if there is none or it has no text), the usage of
\* the last turn.completed event that has one (null if none), and aborted
\* true iff a turn.aborted event occurs; lines that are not JSON change nothing.
C18_FoldsEventsInOrder ==
  pout.done =>
    LET evs == ParsedEvents(pstdout)
        th == LastOf(evs, IsThreadStarted)
        am == LastOf(evs, IsAgentMessage)
        tc == LastOf(evs, IsTurnCompleted)
        p == pout.parsed
    IN /\ p.sessionId = IF th = 0 THEN Null ELSE Get(evs[th], "thread_id")
       /\ p.result = IF am = 0 THEN EmptyStr
                     ELSE Or(Get(Get(evs[am], "item"), "text"), EmptyStr)
       /\ p.tokenUsage = IF tc = 0 THEN Null ELSE Get(evs[tc], "usage")
       /\ p.aborted <=> \E i \in 1..Len(evs) : IsTurnAborted(evs[i])

\* two agent messages with a line that is not JSON between them: the line is
\* skipped and the later message is the result
C18_Witness ==
  /\ pout.done
  /\ pstdout = JoinNL(<<<<Js(CodexAgentMessage(Lit("A")))>>, <<Tx("x")>>,
                        <<Js(CodexAgentMessage(Lit("B")))>>>>)
  /\ pout.parsed.result = Lit("B")

\* --------------------------------------------- claims on the shutdown
\* C20: when process.exit(0) has been called, the appendFile of every log line
\* that was enqueued before the signal has completed.
C20_FlushedBeforeExit ==
  exited => \A n \in 1..signalled : n \in appended

\* ------------------------------------------------- claims on the adapters
\* the close event was the first to settle the invocation
ClosedFirst == ainv.proc = "closed" /\ ainv.timer = "cleared" /\ ~ainv.errored

IsCount(v) == v.t = "num" /\ v.v \in Nat

\* C6: when the 120 s timer expires on a process that has not closed, the
\* process is sent SIGKILL and the invocation is rejected with the timeout error
\* (so nothing of the stdout captured so far is returned), and an invocation
\* whose process never exits does not stay pending: the timer does fire.
C6_TimeoutKillsAndFails ==
  /\ [](ainv.timer = "fired" => (ainv.killed /\ ainv.out = Reject("timeout")))
  /\ <>(ainv.proc # "running" \/ ainv.errored \/ ainv.timer = "fired")
  /\ <>(ainv.promise # "pending")

C6_Witness ==
  /\ ainv.timer = "fired"
  /\ ainv.proc = "running"
  /\ astdout # << >>
  /\ ainv.promise = "rejected"

\* C7: a close event with a non-zero exit code (or none, after a signal) never
\* leaves the invocation resolved, whatever stdout holds.
C7_NonZeroExitRejects ==
  (ainv.proc = "closed" /\ acode # Num(0)) =>
    (ainv.promise = "rejected" /\ atokens = NoTokens)

C7_Witness ==
  /\ ClosedFirst
  /\ acode = Num(1)
  /\ ainv.provider = "codex"
  /\ astdout = <<Js(CodexThreadStarted(1)), NL, Js(CodexAgentMessage(Lit("A"))), NL>>
  /\ ainv.out = Reject("exit")

\* stdout is not that kind's structured output: not one JSON document (claude,
\* gemini), or no line of it is a JSON document (codex)
Unparseable(provider, stdout) ==
  IF provider = "codex"
  THEN \A i \in 1..Len(CodexLines(stdout)) : ~JSONParses(CodexLines(stdout)[i])
  ELSE ~JSONParses(stdout)

\* C8: on exit code 0 with a stdout that cannot be parsed as the kind's
\* structured output, the invocation resolves with result = the trimmed stdout,
\* no continuation token, and token usage {0, 0}.
C8_DegradeToRawStdout ==
  (ClosedFirst /\ acode = Num(0) /\ Unparseable(ainv.provider, astdout)) =>
    /\ ainv.promise = "resolved"
    /\ Get(ainv.out.v, "result") = Str(Trim(astdout))
    /\ ~Truthy(Get(ainv.out.v, "session_id"))
    /\ atokens = [threw |-> FALSE, input |-> Num(0), output |-> Num(0)]

\* stdout is one of the shapes C9 lists: the kind's structured output (a JSON
\* object for claude and gemini, event lines for codex), with or without the
\* text field, or unparseable output
ListedShape(provider, stdout) ==
  \/ provider = "codex"
  \/ Unparseable(provider, stdout)
  \/ JSONParse(stdout).t = "obj"

\* C9: with no continuation token and exit code 0 the invocation resolves and
\* the result field is a string, for every shape of stdout: structured output
\* with the text field, structured output lacking it, unparseable output.
C9_ZeroExitResultIsString ==
  (/\ ClosedFirst
   /\ acode = Num(0)
   /\ ainv.sessionId = Null
   /\ ListedShape(ainv.provider, astdout)) =>
    (ainv.promise = "resolved" /\ Get(ainv.out.v, "result").t = "str")

\* no JSON document in stdout carries usage data
UsageFree(stdout) ==
  \A i \in 1..Len(stdout) :
    (stdout[i].k = "js" /\ ~IsNullish(stdout[i].v)) =>
      /\ ~Truthy(Get(stdout[i].v, "usage"))
      /\ ~Truthy(Get(stdout[i].v, "stats"))

\* C10: for every resolved invocation extractTokens returns, without throwing,
\* input and output that are integers >= 0, both 0 when the agent reported no
\* usage.
C10_TokensAlwaysCounts ==
  ainv.promise = "resolved" =>
    /\ ~atokens.threw
    /\ IsCount(atokens.input)
    /\ IsCount(atokens.output)
    /\ UsageFree(astdout) => (atokens.input = Num(0) /\ atokens.output = Num(0))

C10_Witness ==
  /\ ainv.promise = "resolved"
  /\ ainv.provider = "claude"
  /\ Get(ainv.out.v, "usage") = Obj([input_tokens |-> Num(1)])
  /\ atokens = [threw |-> FALSE, input |-> Num(1), output |-> Num(0)]

====
